---- MODULE Spec2Model ----
(***************************************************************************)
(* Extension layer of the instant-epp client (src/extensions): the scalar  *)
(* codec of charge::ChargeCommand, the Extension contract (DO_SEND and     *)
(* Response), the command/extension pairing relation (Transaction impls)   *)
(* and the three composite combinators of composite.rs.                    *)
(***************************************************************************)
EXTENDS Integers, Sequences, FiniteSets, TLC

VARIABLES
    into,       \* ChargeCommand accumulator: <<>> is None, <<v>> is Some(v)
    deser,      \* the Deserializer handed to deserialize: its pending node
    field,      \* the field name handed to the last deserialize call
    dres,       \* result of the last deserialize call
    call,       \* the accumulator and deserializer as that call received them
    stack,      \* extension values built so far; the last one is the newest
    sink,       \* the Serializer's sink of the last serialize call
    sres,       \* result of the last serialize call
    rtype,      \* <<T>> once the Response type T of the newest value is resolved
    req,        \* <<r>> once an extension was attached to a command, else <<>>
    scalar,     \* the scalar enumeration the accumulator into belongs to
    built,      \* the request value the constructors and builders work on
    lastcall    \* the constructor or builder called last, with its arguments

codecVars == <<into, deser, field, dres, call>>

compVars == <<stack, sink, sres, rtype>>

buildVars == <<scalar, built, lastcall>>

vars == <<into, deser, field, dres, call, stack, sink, sres, rtype, req,
          scalar, built, lastcall>>

(***************************************************************************)
(* Text.  A string is a sequence of one-character strings, so that case    *)
(* and whitespace are visible to the comparison.                           *)
(***************************************************************************)
MaxTextLen == 2

LowerChars == <<"a", "c", "d", "e", "f", "n", "p", "r", "s", "t", "u", "w">>

UpperChars == <<"A", "C", "D", "E", "F", "N", "P", "R", "S", "T", "U", "W">>

ToUpper(c) ==
    IF \E i \in 1..Len(LowerChars) : LowerChars[i] = c
    THEN UpperChars[CHOOSE i \in 1..Len(LowerChars) : LowerChars[i] = c]
    ELSE c

ToLower(c) ==
    IF \E i \in 1..Len(UpperChars) : UpperChars[i] = c
    THEN LowerChars[CHOOSE i \in 1..Len(UpperChars) : UpperChars[i] = c]
    ELSE c

UpperCase(s) == [i \in 1..Len(s) |-> ToUpper(s[i])]

LowerCase(s) == [i \in 1..Len(s) |-> ToLower(s[i])]

Capitalize(s) == [i \in 1..Len(s) |-> IF i = 1 THEN ToUpper(s[i]) ELSE s[i]]

RECURSIVE TrimEnd(_)
TrimEnd(s) ==
    IF s # <<>> /\ s[Len(s)] = " " THEN TrimEnd(SubSeq(s, 1, Len(s) - 1)) ELSE s

RECURSIVE TrimStart(_)
TrimStart(s) ==
    IF s # <<>> /\ s[1] = " " THEN TrimStart(Tail(s)) ELSE s

Trim(s) == TrimStart(TrimEnd(s))

\* The wire literals of charge.rs:109-112.
LitCreate == <<"c", "r", "e", "a", "t", "e">>

LitRenew == <<"r", "e", "n", "e", "w">>

LitTransfer == <<"t", "r", "a", "n", "s", "f", "e", "r">>

LitUpdate == <<"u", "p", "d", "a", "t", "e">>

KnownTokens == {LitCreate, LitRenew, LitTransfer, LitUpdate}

\* Tokens a server could send that the enum does not know.
LitRestore == <<"r", "e", "s", "t", "o", "r", "e">>

LitDelete == <<"d", "e", "l", "e", "t", "e">>

FreeChars == {"e", "E", " "}

RECURSIVE FreeTexts(_)
FreeTexts(n) ==
    IF n = 0 THEN {<<>>}
    ELSE LET shorter == FreeTexts(n - 1)
         IN  shorter \cup {Append(s, c) : s \in {t \in shorter : Len(t) = n - 1},
                                           c \in FreeChars}

\* Near misses of a known token: letter case and extra or missing characters.
NearMisses(t) ==
    { Capitalize(t), UpperCase(t), Append(t, " "), <<" ">> \o t,
      SubSeq(t, 1, Len(t) - 1), Append(t, "s"), t \o t }

\* The text bodies fed to the decoder.
Texts ==
    KnownTokens \cup UNION {NearMisses(t) : t \in KnownTokens}
                \cup {LitRestore, LitDelete} \cup FreeTexts(MaxTextLen)

(***************************************************************************)
(* charge::ChargeCommand and its FromXml implementation.                   *)
(***************************************************************************)
Plain(tag) == [tag |-> tag, text |-> <<>>]

Create == Plain("Create")

Renew == Plain("Renew")

Transfer == Plain("Transfer")

Update == Plain("Update")

Empty == Plain("Empty")

Unknown(s) == [tag |-> "Unknown", text |-> s]

KnownVariants == {Create, Renew, Transfer, Update}

ChargeCommand == KnownVariants \cup {Empty} \cup {Unknown(s) : s \in Texts}

\* Nodes a Deserializer can hold for a scalar: the value of an attribute, the
\* text of an element, or an element that opens where a scalar is expected.
TextNode(kind, s) == [kind |-> kind, text |-> s]

Nodes ==
    {TextNode(k, s) : k \in {"AttributeValue", "Text"}, s \in Texts}
        \cup {TextNode("Open", <<>>)}

\* Deserializer::take_str as called at charge.rs:107: the pending node is
\* consumed; no node gives Ok(None), a text node gives Ok(Some(text)) and
\* any other node is an error.
take_str(d) ==
    IF d = <<>> THEN [ok |-> TRUE, value |-> <<>>, rest |-> <<>>]
    ELSE IF d[1].kind \in {"AttributeValue", "Text"}
         THEN [ok |-> TRUE, value |-> <<d[1].text>>, rest |-> <<>>]
         ELSE [ok |-> FALSE, value |-> <<>>, rest |-> <<>>]

\* The arms of charge.rs:109-112 for the known literals, compared exactly;
\* <<>> when no arm matches.  (The mutant compares ignoring letter case.)
KnownArmIgnoreCase(value) ==
    LET v == LowerCase(value)
    IN  CASE v = LitCreate -> <<Create>>
          [] v = LitRenew -> <<Renew>>
          [] v = LitTransfer -> <<Transfer>>
          [] v = LitUpdate -> <<Update>>
          [] OTHER -> <<>>

KnownArm(value) ==
    CASE value = LitCreate -> <<Create>>
      [] value = LitRenew -> <<Renew>>
      [] value = LitTransfer -> <<Transfer>>
      [] value = LitUpdate -> <<Update>>
      [] OTHER -> <<>>

\* The catch-all arm of charge.rs:113: value.to_string().  (The mutant
\* trims the text it keeps.)
CatchAllTrimmed(value) == Unknown(Trim(value))

CatchAll(value) == Unknown(value)

\* The inner match of charge.rs:108-114 on the text taken.
MatchToken(value) ==
    IF KnownArm(value) # <<>> THEN KnownArm(value)[1] ELSE CatchAll(value)

\* The outer match of charge.rs:107-116 on take_str's Option.
FromTaken(taken) ==
    IF taken = <<>> THEN Empty ELSE MatchToken(taken[1])

Ok == [kind |-> "Ok", field |-> ""]

DuplicateValue(f) == [kind |-> "DuplicateValue", field |-> f]

TakeError == [kind |-> "ExpectedScalar", field |-> ""]

NotRun == [kind |-> "NotRun", field |-> ""]

Fields == {"command", "value"}

\* No call has been made on the pending deserializer yet.
NoCall == [into |-> <<>>, deser |-> <<>>]

\* No request value has been constructed yet.
NoValue == [ty |-> "none"]

NoBuild == [op |-> "none"]

(***************************************************************************)
(* Extension values.  A leaf is a value of one of the request types of the *)
(* namespace schemas; id stands for its field contents.  A composite holds *)
(* its two children in kids: first is kids[1], second is kids[2].          *)
(***************************************************************************)
MaxLeaves == 3

MaxFail == 1

LeafTypes ==
    { "charge::ChargeExtension", "charge::Agreement",
      "fee::Check", "fee::Create", "fee::Renew",
      "fee07::Check", "fee07::Create", "fee07::Renew", "fee07::Transfer",
      "launch::Check", "launch::Create" }

\* The leaf types the composite trees are built from.
TreeLeafTypes ==
    { "charge::ChargeExtension", "charge::Agreement", "fee::Check", "launch::Check" }

CompositeShapes ==
    { "CompositeExt", "CompositeExtWithSecondResponse", "CompositeExtWithFirstResponse" }

Leaf(ty, n) == [shape |-> "Leaf", ty |-> ty, id |-> n, kids |-> <<>>]

Composite(shape, a, b) == [shape |-> shape, ty |-> shape, id |-> 0, kids |-> <<a, b>>]

IsComposite(e) == e.shape \in CompositeShapes

charge_XMLNS == "http://www.unitedtld.com/epp/charge-1.0"

fee_XMLNS == "urn:ietf:params:xml:ns:epp:fee-1.0"

fee07_XMLNS == "urn:ietf:params:xml:ns:fee-0.7"

launch_XMLNS == "urn:ietf:params:xml:ns:launch-1.0"

\* The root element the derived ToXml of each request type writes.
charge_Element(ty) ==
    CASE ty = "charge::ChargeExtension" -> [ns |-> "", tag |-> "ChargeExtension"]
      [] ty = "charge::Agreement" -> [ns |-> charge_XMLNS, tag |-> "agreement"]

fee_Element(ty) ==
    CASE ty = "fee::Check" -> [ns |-> fee_XMLNS, tag |-> "check"]
      [] ty = "fee::Create" -> [ns |-> fee_XMLNS, tag |-> "create"]
      [] ty = "fee::Renew" -> [ns |-> fee_XMLNS, tag |-> "renew"]

fee07_Element(ty) ==
    CASE ty = "fee07::Check" -> [ns |-> fee07_XMLNS, tag |-> "check"]
      [] ty = "fee07::Create" -> [ns |-> fee07_XMLNS, tag |-> "create"]
      [] ty = "fee07::Renew" -> [ns |-> fee07_XMLNS, tag |-> "renew"]
      [] ty = "fee07::Transfer" -> [ns |-> fee07_XMLNS, tag |-> "transfer"]

launch_Element(ty) ==
    CASE ty = "launch::Check" -> [ns |-> launch_XMLNS, tag |-> "check"]
      [] ty = "launch::Create" -> [ns |-> launch_XMLNS, tag |-> "create"]

ElementOf(e) ==
    LET el == CASE e.ty \in {"charge::ChargeExtension", "charge::Agreement"} ->
                      charge_Element(e.ty)
                [] e.ty \in {"fee::Check", "fee::Create", "fee::Renew"} ->
                      fee_Element(e.ty)
                [] e.ty \in {"launch::Check", "launch::Create"} ->
                      launch_Element(e.ty)
                [] OTHER -> fee07_Element(e.ty)
    IN  [ns |-> el.ns, tag |-> el.tag, id |-> e.id]

(***************************************************************************)
(* The Extension contract: DO_SEND and Response of every implementation.   *)
(***************************************************************************)
\* The trait's default for DO_SEND, used by every impl that does not set it.
Extension_DO_SEND == TRUE

\* (The mutant leaves ChargeExtension on the trait's default.)
ChargeExtension_DO_SEND_Default == TRUE

ChargeExtension_DO_SEND == FALSE

CompositeExt_DO_SEND == TRUE

\* (The mutant leaves the composite unsent, as ChargeExtension is.)
CompositeExtWithSecondResponse_DO_SEND_Off == FALSE

CompositeExtWithSecondResponse_DO_SEND == TRUE

CompositeExtWithFirstResponse_DO_SEND == TRUE

DO_SEND(e) ==
    CASE e.shape = "CompositeExt" -> CompositeExt_DO_SEND
      [] e.shape = "CompositeExtWithSecondResponse" -> CompositeExtWithSecondResponse_DO_SEND
      [] e.shape = "CompositeExtWithFirstResponse" -> CompositeExtWithFirstResponse_DO_SEND
      [] e.ty = "charge::ChargeExtension" -> ChargeExtension_DO_SEND
      [] OTHER -> Extension_DO_SEND

\* Extension::do_send(&self): the transmission predicate of a value.
do_send(e) == DO_SEND(e)

charge_Response(ty) ==
    CASE ty = "charge::ChargeExtension" -> "charge::CheckData"
      [] ty = "charge::Agreement" -> "NoExtension"

fee_Response(ty) ==
    CASE ty = "fee::Check" -> "fee::CheckData"
      [] ty = "fee::Create" -> "fee::CreateData"
      [] ty = "fee::Renew" -> "fee::RenewData"

fee07_Response(ty) ==
    CASE ty = "fee07::Check" -> "fee07::CheckData"
      [] ty = "fee07::Create" -> "fee07::CreateData"
      [] ty = "fee07::Renew" -> "fee07::RenewData"
      [] ty = "fee07::Transfer" -> "fee07::TransferData"

launch_Response(ty) ==
    CASE ty = "launch::Check" -> "launch::CheckData"
      [] ty = "launch::Create" -> "NoExtension"

\* type Response of the three composites.  (The mutant takes the other
\* child's.)
CompositeExtWithSecondResponse_Response(r1, r2) == r2

CompositeExtWithFirstResponse_ResponseSwapped(r1, r2) == r2

CompositeExtWithFirstResponse_Response(r1, r2) == r1

CompositeExt_Response(r1, r2) == "NoExtension"

\* <E as Extension>::Response, resolved through the children's types.
RECURSIVE Response(_)
Response(e) ==
    CASE e.shape = "CompositeExt" ->
             CompositeExt_Response(Response(e.kids[1]), Response(e.kids[2]))
      [] e.shape = "CompositeExtWithSecondResponse" ->
             CompositeExtWithSecondResponse_Response(Response(e.kids[1]), Response(e.kids[2]))
      [] e.shape = "CompositeExtWithFirstResponse" ->
             CompositeExtWithFirstResponse_Response(Response(e.kids[1]), Response(e.kids[2]))
      [] e.ty \in {"charge::ChargeExtension", "charge::Agreement"} -> charge_Response(e.ty)
      [] e.ty \in {"fee::Check", "fee::Create", "fee::Renew"} -> fee_Response(e.ty)
      [] e.ty \in {"launch::Check", "launch::Create"} -> launch_Response(e.ty)
      [] OTHER -> fee07_Response(e.ty)

(***************************************************************************)
(* Serialization.  A sink accepts root elements until it fails: fails is   *)
(* <<>> for a sink that never fails (a String) and <<k>> for one whose     *)
(* write fails after k elements.  A leaf's element is written whole or not *)
(* at all.  calls counts the composite serialize bodies entered.           *)
(***************************************************************************)
NewSink(f) == [out |-> <<>>, fails |-> f, calls |-> 0]

Sinks == {NewSink(<<>>)} \cup {NewSink(<<k>>) : k \in 0..MaxFail}

Done(s) == [sink |-> s, ok |-> TRUE]

Failed(s) == [sink |-> s, ok |-> FALSE]

\* The derived ToXml::serialize of a request type.
leaf_serialize(e, s) ==
    IF s.fails # <<>> /\ s.fails[1] = 0
    THEN Failed(s)
    ELSE Done([s EXCEPT !.out = Append(@, ElementOf(e)),
                        !.fails = IF @ = <<>> THEN @ ELSE <<@[1] - 1>>])

RECURSIVE serialize(_, _)

\* CompositeExt::serialize, composite.rs:16-28.  (The mutant writes the
\* second child before the first.)
CompositeExt_serialize_Reversed(e, s) ==
    LET s0 == [s EXCEPT !.calls = @ + 1]
        r2 == IF do_send(e.kids[2]) THEN serialize(e.kids[2], s0) ELSE Done(s0)
    IN  IF ~r2.ok THEN r2
        ELSE IF do_send(e.kids[1]) THEN serialize(e.kids[1], r2.sink)
             ELSE Done(r2.sink)

CompositeExt_serialize(e, s) ==
    LET s0 == [s EXCEPT !.calls = @ + 1]
        r1 == IF do_send(e.kids[1]) THEN serialize(e.kids[1], s0) ELSE Done(s0)
    IN  IF ~r1.ok THEN r1
        ELSE IF do_send(e.kids[2]) THEN serialize(e.kids[2], r1.sink)
             ELSE Done(r1.sink)

\* CompositeExtWithSecondResponse::serialize, composite.rs:49-61.  (The
\* mutant serializes the second child without asking do_send.)
CompositeExtWithSecondResponse_serialize_Unconditional(e, s) ==
    LET s0 == [s EXCEPT !.calls = @ + 1]
        r1 == IF do_send(e.kids[1]) THEN serialize(e.kids[1], s0) ELSE Done(s0)
    IN  IF ~r1.ok THEN r1 ELSE serialize(e.kids[2], r1.sink)

CompositeExtWithSecondResponse_serialize(e, s) ==
    LET s0 == [s EXCEPT !.calls = @ + 1]
        r1 == IF do_send(e.kids[1]) THEN serialize(e.kids[1], s0) ELSE Done(s0)
    IN  IF ~r1.ok THEN r1
        ELSE IF do_send(e.kids[2]) THEN serialize(e.kids[2], r1.sink)
             ELSE Done(r1.sink)

\* CompositeExtWithFirstResponse::serialize, composite.rs:84-96.  (The
\* mutant writes the second child before the first.)
CompositeExtWithFirstResponse_serialize_Reversed(e, s) ==
    LET s0 == [s EXCEPT !.calls = @ + 1]
        r2 == IF do_send(e.kids[2]) THEN serialize(e.kids[2], s0) ELSE Done(s0)
    IN  IF ~r2.ok THEN r2
        ELSE IF do_send(e.kids[1]) THEN serialize(e.kids[1], r2.sink)
             ELSE Done(r2.sink)

\* (A second mutant drops the `?` after the first child: its error is
\* swallowed and the second child is still written.)
CompositeExtWithFirstResponse_serialize_SwallowsError(e, s) ==
    LET s0 == [s EXCEPT !.calls = @ + 1]
        r1 == IF do_send(e.kids[1]) THEN serialize(e.kids[1], s0) ELSE Done(s0)
    IN  IF do_send(e.kids[2]) THEN serialize(e.kids[2], r1.sink)
        ELSE Done(r1.sink)

CompositeExtWithFirstResponse_serialize(e, s) ==
    LET s0 == [s EXCEPT !.calls = @ + 1]
        r1 == IF do_send(e.kids[1]) THEN serialize(e.kids[1], s0) ELSE Done(s0)
    IN  IF ~r1.ok THEN r1
        ELSE IF do_send(e.kids[2]) THEN serialize(e.kids[2], r1.sink)
             ELSE Done(r1.sink)

\* ToXml::serialize, dispatched on the type of the value.
serialize(e, s) ==
    CASE e.shape = "CompositeExt" -> CompositeExt_serialize(e, s)
      [] e.shape = "CompositeExtWithSecondResponse" ->
             CompositeExtWithSecondResponse_serialize(e, s)
      [] e.shape = "CompositeExtWithFirstResponse" ->
             CompositeExtWithFirstResponse_serialize(e, s)
      [] OTHER -> leaf_serialize(e, s)

(***************************************************************************)
(* Building and encoding composites.                                       *)
(***************************************************************************)
RECURSIVE NumLeaves(_)
NumLeaves(e) ==
    IF IsComposite(e) THEN NumLeaves(e.kids[1]) + NumLeaves(e.kids[2]) ELSE 1

RECURSIVE StackLeaves(_)
StackLeaves(st) ==
    IF st = <<>> THEN 0 ELSE NumLeaves(Head(st)) + StackLeaves(Tail(st))

Top == stack[Len(stack)]

Fresh == NewSink(<<>>)

\* A request value of type ty is constructed.
NewLeaf(ty) ==
    /\ StackLeaves(stack) < MaxLeaves
    /\ stack' = Append(stack, Leaf(ty, StackLeaves(stack) + 1))
    /\ sink' = Fresh
    /\ sres' = "NotRun"
    /\ rtype' = <<>>
    /\ UNCHANGED <<codecVars, req, buildVars>>

\* The struct literal of a composite: the two newest values become its
\* first and second field.
Compose(shape) ==
    /\ Len(stack) >= 2
    /\ stack' = Append(SubSeq(stack, 1, Len(stack) - 2),
                       Composite(shape, stack[Len(stack) - 1], stack[Len(stack)]))
    /\ sink' = Fresh
    /\ sres' = "NotRun"
    /\ rtype' = <<>>
    /\ UNCHANGED <<codecVars, req, buildVars>>

\* The newest composite is serialized into a new sink.
Serialize(s) ==
    /\ stack # <<>>
    /\ IsComposite(Top)
    /\ LET r == serialize(Top, s)
       IN  /\ sink' = r.sink
           /\ sres' = IF r.ok THEN "Ok" ELSE "Err"
    /\ rtype' = <<>>
    /\ UNCHANGED stack
    /\ UNCHANGED <<codecVars, req, buildVars>>

\* The type the reply to the newest composite is decoded as.
ResolveResponse ==
    /\ stack # <<>>
    /\ IsComposite(Top)
    /\ rtype' = <<Response(Top)>>
    /\ sink' = Fresh
    /\ sres' = "NotRun"
    /\ UNCHANGED stack
    /\ UNCHANGED <<codecVars, req, buildVars>>

CompInit ==
    /\ stack = <<>>
    /\ sink = Fresh
    /\ sres = "NotRun"
    /\ rtype = <<>>
    /\ req = <<>>
    /\ scalar = "charge::ChargeCommand"
    /\ built = NoValue
    /\ lastcall = NoBuild

Init ==
    /\ CompInit
    /\ into = <<>>
    /\ deser = <<>>
    /\ field = "command"
    /\ dres = NotRun
    /\ call = NoCall

Next ==
    \/ \E ty \in TreeLeafTypes : NewLeaf(ty)
    \/ \E shape \in CompositeShapes : Compose(shape)
    \/ \E s \in Sinks : Serialize(s)
    \/ ResolveResponse

Spec == Init /\ [][Next]_vars

(***************************************************************************)
(* Claims on the composites.                                               *)
(***************************************************************************)
First == Top.kids[1]

Second == Top.kids[2]

\* The newest value is a composite and its serialize call has returned.
Serialized == stack # <<>> /\ IsComposite(Top) /\ sres # "NotRun"

\* What a child writes when it is serialized on its own into a sink that
\* never fails.
Alone(c) == serialize(c, Fresh).sink.out

Part(c) == IF do_send(c) THEN Alone(c) ELSE <<>>

IsPrefix(p, q) == Len(p) <= Len(q) /\ p = SubSeq(q, 1, Len(p))

\* The leaves of a value, left to right.
RECURSIVE Leaves(_)
Leaves(e) ==
    IF IsComposite(e) THEN Leaves(e.kids[1]) \o Leaves(e.kids[2]) ELSE <<e>>

RECURSIVE NumComposites(_)
NumComposites(e) ==
    IF IsComposite(e)
    THEN 1 + NumComposites(e.kids[1]) + NumComposites(e.kids[2])
    ELSE 0

RECURSIVE Subtrees(_)
Subtrees(e) ==
    IF IsComposite(e)
    THEN {e} \cup Subtrees(e.kids[1]) \cup Subtrees(e.kids[2])
    ELSE {e}

SentLeaves(e) == SelectSeq(Leaves(e), do_send)

ElementsOf(ls) == [i \in 1..Len(ls) |-> ElementOf(ls[i])]

\* C1: a successful serialize of a composite of any of the three types wrote
\* exactly the children whose do_send() is true, the first child's output
\* before the second's; with first unsent and second sent the output is the
\* second child's alone.
C1_WritesSentChildrenInOrder ==
    (Serialized /\ sres = "Ok") =>
        /\ sink.out = Part(First) \o Part(Second)
        /\ (~do_send(First) /\ do_send(Second)) => sink.out = Alone(Second)

C1_Witness ==
    /\ Serialized
    /\ sres = "Ok"
    /\ ~do_send(First)
    /\ do_send(Second)
    /\ ~IsComposite(Second)
    /\ sink.out = <<ElementOf(Second)>>

\* C2: when neither child of a composite is sent, serialize writes nothing
\* and returns Ok, whatever the sink.
C2_BothUnsentWritesNothing ==
    (Serialized /\ ~do_send(First) /\ ~do_send(Second)) =>
        /\ sres = "Ok"
        /\ sink.out = <<>>

C2_Witness ==
    /\ Serialized
    /\ ~do_send(First)
    /\ ~do_send(Second)
    /\ sink.fails = <<0>>
    /\ sres = "Ok"

\* C3: the elements a nested composite wrote are those of its sent leaves
\* in left-to-right order of the tree: all of them when serialize returned
\* Ok, a prefix of them when it failed; none is repeated or out of order.
C3_LeavesInDeclarationOrder ==
    Serialized =>
        /\ sres = "Ok" => sink.out = ElementsOf(SentLeaves(Top))
        /\ IsPrefix(sink.out, ElementsOf(SentLeaves(Top)))
        /\ \A i, j \in 1..Len(sink.out) : i < j => sink.out[i].id < sink.out[j].id

C3_Witness ==
    /\ Serialized
    /\ sres = "Ok"
    /\ IsComposite(First)
    /\ Len(sink.out) = 3
    /\ NumLeaves(Top) = 3

\* C4: DO_SEND of every composite is true whatever its children are, so
\* every composite nested in a serialized composite had its serialize body
\* entered, and a leaf at any depth was written exactly when the leaf's own
\* predicate is true.
C4_CompositeAlwaysSent ==
    /\ \A st \in 1..Len(stack) : \A c \in Subtrees(stack[st]) :
           IsComposite(c) => DO_SEND(c)
    /\ (Serialized /\ sres = "Ok") =>
           /\ sink.calls = NumComposites(Top)
           /\ \A l \in Subtrees(Top) :
                  ~IsComposite(l) =>
                      ((\E i \in 1..Len(sink.out) : sink.out[i] = ElementOf(l))
                           <=> do_send(l))

C4_Witness ==
    /\ Serialized
    /\ sres = "Ok"
    /\ IsComposite(First)
    /\ ~do_send(First.kids[1])
    /\ ~do_send(First.kids[2])
    /\ do_send(Second)
    /\ sink.calls = 2
    /\ sink.out = <<ElementOf(Second)>>

\* C5: the Response type of a composite follows from its shape alone:
\* NoExtension for CompositeExt, the first child's Response for
\* CompositeExtWithFirstResponse, the second child's for
\* CompositeExtWithSecondResponse, also when the child is a composite.
C5_ResponseByShape ==
    (rtype # <<>>) =>
        /\ Top.shape = "CompositeExt" => rtype[1] = "NoExtension"
        /\ Top.shape = "CompositeExtWithFirstResponse" => rtype[1] = Response(First)
        /\ Top.shape = "CompositeExtWithSecondResponse" => rtype[1] = Response(Second)

C5_Witness ==
    /\ rtype = <<"fee::CheckData">>
    /\ Top.shape = "CompositeExtWithFirstResponse"
    /\ First.shape = "CompositeExtWithSecondResponse"
    /\ First.kids[2].ty = "fee::Check"
    /\ Response(Second) # "fee::CheckData"

(***************************************************************************)
(* The pairing relation: the Transaction impls of each file, as pairs      *)
(* <<command, extension type>>.  The composites' impls are generic in both *)
(* children, so they pair a command with the composite type alone.         *)
(***************************************************************************)
Commands == {"DomainCheck", "DomainCreate", "DomainUpdate", "DomainRenew", "DomainTransfer"}

charge_Transaction ==
    { <<"DomainCheck", "charge::ChargeExtension">>,
      <<"DomainCreate", "charge::Agreement">>,
      <<"DomainRenew", "charge::Agreement">> }

fee_Transaction ==
    { <<"DomainCheck", "fee::Check">>,
      <<"DomainCreate", "fee::Create">>,
      <<"DomainRenew", "fee::Renew">> }

\* (The mutant also grants Transfer to DomainRenew.)
fee07_Transaction_Extra ==
    { <<"DomainCheck", "fee07::Check">>,
      <<"DomainCreate", "fee07::Create">>,
      <<"DomainRenew", "fee07::Renew">>,
      <<"DomainRenew", "fee07::Transfer">>,
      <<"DomainTransfer", "fee07::Transfer">> }

fee07_Transaction ==
    { <<"DomainCheck", "fee07::Check">>,
      <<"DomainCreate", "fee07::Create">>,
      <<"DomainRenew", "fee07::Renew">>,
      <<"DomainTransfer", "fee07::Transfer">> }

launch_Transaction ==
    { <<"DomainCheck", "launch::Check">>,
      <<"DomainCreate", "launch::Create">> }

\* (The mutant grants CompositeExt to DomainRenew as well.)
composite_Transaction_Widened ==
    { <<"DomainUpdate", "CompositeExt">>,
      <<"DomainCreate", "CompositeExt">>,
      <<"DomainRenew", "CompositeExt">>,
      <<"DomainCheck", "CompositeExtWithSecondResponse">>,
      <<"DomainCheck", "CompositeExtWithFirstResponse">>,
      <<"DomainCreate", "CompositeExtWithFirstResponse">>,
      <<"DomainUpdate", "CompositeExtWithFirstResponse">> }

composite_Transaction ==
    { <<"DomainUpdate", "CompositeExt">>,
      <<"DomainCreate", "CompositeExt">>,
      <<"DomainCheck", "CompositeExtWithSecondResponse">>,
      <<"DomainCheck", "CompositeExtWithFirstResponse">>,
      <<"DomainCreate", "CompositeExtWithFirstResponse">>,
      <<"DomainUpdate", "CompositeExtWithFirstResponse">> }

\* cmd: Transaction<E> for the type E of the value e.
Transaction(cmd, e) ==
    <<cmd, e.ty>> \in
        charge_Transaction \cup fee_Transaction \cup fee07_Transaction
            \cup launch_Transaction \cup composite_Transaction

\* The extension values attached to commands: every request type alone,
\* every composite of two request types, and composites nested once.
SimpleExts == {Leaf(ty, 1) : ty \in LeafTypes}

PairExts ==
    {Composite(sh, Leaf(a, 1), Leaf(b, 2)) : sh \in CompositeShapes, a \in LeafTypes, b \in LeafTypes}

NestedExts ==
    UNION { { Composite(sh, Composite(inner, Leaf(a, 1), Leaf(b, 2)), Leaf(c, 3)),
              Composite(sh, Leaf(a, 1), Composite(inner, Leaf(b, 2), Leaf(c, 3))) } :
            sh \in CompositeShapes, inner \in CompositeShapes,
            a \in TreeLeafTypes, b \in TreeLeafTypes, c \in TreeLeafTypes }

AttachedExts == SimpleExts \cup PairExts \cup NestedExts

\* A request is formed from a command and an extension value.  The request
\* exists only where the command implements Transaction for the value's type.
Attach(cmd, e) ==
    /\ req = <<>>
    /\ req' = <<[cmd |-> cmd, ext |-> e, accepted |-> Transaction(cmd, e)]>>
    /\ sink' = Fresh
    /\ sres' = "NotRun"
    /\ UNCHANGED <<stack, rtype, codecVars, buildVars>>

\* The request's extension is written into the <extension> container, when
\* its do_send() is true.
Encode ==
    /\ req # <<>>
    /\ req[1].accepted
    /\ sres = "NotRun"
    /\ LET r == IF do_send(req[1].ext) THEN serialize(req[1].ext, Fresh) ELSE Done(Fresh)
       IN  /\ sink' = r.sink
           /\ sres' = IF r.ok THEN "Ok" ELSE "Err"
    /\ UNCHANGED <<stack, rtype, req, codecVars, buildVars>>

\* The request is done with: it was sent, or it was refused.
Release ==
    /\ req # <<>>
    /\ ~req[1].accepted \/ sres # "NotRun"
    /\ req' = <<>>
    /\ sink' = Fresh
    /\ sres' = "NotRun"
    /\ UNCHANGED <<stack, rtype, codecVars, buildVars>>

PairingNext ==
    \/ \E cmd \in Commands, e \in AttachedExts : Attach(cmd, e)
    \/ Encode
    \/ Release

SpecPairing == Init /\ [][PairingNext]_vars

(***************************************************************************)
(* Claims on the pairing relation.                                         *)
(***************************************************************************)
\* The pairs the relation is said to hold for the request types.
DeclaredSimple ==
    { <<"DomainCheck", "charge::ChargeExtension">>, <<"DomainCheck", "fee::Check">>,
      <<"DomainCheck", "fee07::Check">>, <<"DomainCheck", "launch::Check">>,
      <<"DomainCreate", "charge::Agreement">>, <<"DomainCreate", "fee::Create">>,
      <<"DomainCreate", "fee07::Create">>, <<"DomainCreate", "launch::Create">>,
      <<"DomainRenew", "charge::Agreement">>, <<"DomainRenew", "fee::Renew">>,
      <<"DomainRenew", "fee07::Renew">>,
      <<"DomainTransfer", "fee07::Transfer">> }

\* The commands each composite type is said to be legal on.
DeclaredComposite(shape) ==
    CASE shape = "CompositeExt" -> {"DomainUpdate", "DomainCreate"}
      [] shape = "CompositeExtWithSecondResponse" -> {"DomainCheck"}
      [] shape = "CompositeExtWithFirstResponse" ->
             {"DomainCheck", "DomainCreate", "DomainUpdate"}

\* C6: a request type attached to a command is accepted exactly for the
\* twelve declared pairs, and the extension of a request that was not
\* accepted is never encoded.
C6_SimplePairsExactlyDeclared ==
    (req # <<>> /\ ~IsComposite(req[1].ext)) =>
        /\ req[1].accepted <=> (<<req[1].cmd, req[1].ext.ty>> \in DeclaredSimple)
        /\ sres # "NotRun" => <<req[1].cmd, req[1].ext.ty>> \in DeclaredSimple

C6_Witness ==
    /\ req # <<>>
    /\ req[1].cmd = "DomainRenew"
    /\ req[1].ext.ty = "fee07::Transfer"
    /\ ~req[1].accepted
    /\ sres = "NotRun"

\* C7: a composite attached to a command is accepted exactly when the
\* composite's own type is granted for that command, whatever its children
\* are and whether or not they are eligible themselves; none is accepted on
\* DomainRenew or DomainTransfer.
C7_CompositeLegalityDeclared ==
    (req # <<>> /\ IsComposite(req[1].ext)) =>
        /\ req[1].accepted <=> (req[1].cmd \in DeclaredComposite(req[1].ext.shape))
        /\ req[1].cmd \in {"DomainRenew", "DomainTransfer"} => ~req[1].accepted
        /\ sres # "NotRun" => req[1].cmd \in DeclaredComposite(req[1].ext.shape)

\* Both children are eligible on DomainRenew and the composite is not.
C7_Witness ==
    /\ req # <<>>
    /\ req[1].cmd = "DomainRenew"
    /\ req[1].ext.shape = "CompositeExt"
    /\ Transaction("DomainRenew", req[1].ext.kids[1])
    /\ Transaction("DomainRenew", req[1].ext.kids[2])
    /\ ~req[1].accepted

\* The request's extension is a composite of two request values.
PairAttached ==
    /\ req # <<>>
    /\ IsComposite(req[1].ext)
    /\ ~IsComposite(req[1].ext.kids[1])
    /\ ~IsComposite(req[1].ext.kids[2])

\* C13: of the request types only charge::ChargeExtension is not sent,
\* every other one and every composite is; an encoded composite holding
\* ChargeExtension as one child and another request type as the other
\* wrote the other child's element alone, in either position.
C13_OnlyChargeExtensionUnsent ==
    /\ \A ty \in LeafTypes : do_send(Leaf(ty, 1)) <=> (ty # "charge::ChargeExtension")
    /\ (req # <<>> /\ IsComposite(req[1].ext)) => do_send(req[1].ext)
    /\ (PairAttached /\ sres # "NotRun") =>
           LET a == req[1].ext.kids[1]
               b == req[1].ext.kids[2]
           IN  /\ (a.ty = "charge::ChargeExtension" /\ b.ty # "charge::ChargeExtension")
                      => (sres = "Ok" /\ sink.out = <<ElementOf(b)>>)
               /\ (b.ty = "charge::ChargeExtension" /\ a.ty # "charge::ChargeExtension")
                      => (sres = "Ok" /\ sink.out = <<ElementOf(a)>>)

C13_Witness ==
    /\ PairAttached
    /\ req[1].cmd = "DomainCheck"
    /\ req[1].ext.shape = "CompositeExtWithFirstResponse"
    /\ req[1].ext.kids[1].ty = "fee07::Check"
    /\ req[1].ext.kids[2].ty = "charge::ChargeExtension"
    /\ sres = "Ok"
    /\ sink.out = <<ElementOf(req[1].ext.kids[1])>>

(***************************************************************************)
(* Decoding ChargeCommand fields.                                          *)
(***************************************************************************)
\* ChargeCommand::deserialize(into, field, deserializer), charge.rs:98-119.
\* (The mutant lacks the is_some() check and decodes over a populated slot.)
deserialize_Overwrite(f) ==
    /\ field' = f
    /\ call' = [into |-> into, deser |-> deser]
    /\ LET t == take_str(deser)
       IN  /\ deser' = t.rest
           /\ IF t.ok
              THEN /\ into' = <<FromTaken(t.value)>>
                   /\ dres' = Ok
              ELSE /\ dres' = TakeError
                   /\ UNCHANGED into
    /\ UNCHANGED <<compVars, req, buildVars>>

deserialize(f) ==
    /\ field' = f
    /\ call' = [into |-> into, deser |-> deser]
    /\ IF into # <<>>
       THEN /\ dres' = DuplicateValue(f)
            /\ UNCHANGED <<into, deser>>
       ELSE LET t == take_str(deser)
            IN  /\ deser' = t.rest
                /\ IF t.ok
                   THEN /\ into' = <<FromTaken(t.value)>>
                        /\ dres' = Ok
                   ELSE /\ dres' = TakeError
                        /\ UNCHANGED into
    /\ UNCHANGED <<compVars, req, buildVars>>

\* The derived FromXml of the owning struct (charge.rs:63-77) hands the next
\* occurrence of the field to the decoder: a fresh Deserializer over one node,
\* or over none for an element without text.
NextOccurrence ==
    /\ dres # NotRun
    /\ \E d \in {<<>>} \cup {<<n>> : n \in Nodes} : deser' = d
    /\ dres' = NotRun
    /\ call' = NoCall
    /\ UNCHANGED <<into, field>>
    /\ UNCHANGED <<compVars, req, buildVars>>

\* A new owning element is decoded: its accumulator starts empty.
NextElement ==
    /\ dres # NotRun
    /\ into # <<>>
    /\ \E d \in {<<>>} \cup {<<n>> : n \in Nodes} : deser' = d
    /\ into' = <<>>
    /\ dres' = NotRun
    /\ call' = NoCall
    /\ UNCHANGED field
    /\ UNCHANGED <<compVars, req, buildVars>>

CodecInit ==
    /\ into = <<>>
    /\ deser \in {<<>>} \cup {<<n>> : n \in Nodes}
    /\ field = "command"
    /\ dres = NotRun
    /\ call = NoCall
    /\ CompInit

CodecNext ==
    \/ \E f \in Fields : deserialize(f)
    \/ NextOccurrence
    \/ NextElement

SpecCodec == CodecInit /\ [][CodecNext]_vars

(***************************************************************************)
(* Claims on the scalar codec.                                             *)
(***************************************************************************)
\* The last call decoded into an empty slot from a deserializer holding text.
DecodedText ==
    /\ dres # NotRun
    /\ call.into = <<>>
    /\ call.deser # <<>>
    /\ call.deser[1].kind \in {"AttributeValue", "Text"}

TextGiven == call.deser[1].text

\* The variant each wire literal stands for.
VariantOf(t) ==
    CASE t = LitCreate -> Create
      [] t = LitRenew -> Renew
      [] t = LitTransfer -> Transfer
      [] t = LitUpdate -> Update

\* C8: a decode of present text yields the known variant of a token exactly
\* when the text is that token, character for character: "create", "renew",
\* "transfer" and "update" give Create, Renew, Transfer and Update, and a
\* text that differs in case or by extra characters gives none of them.
C8_KnownTokensExactMatch ==
    DecodedText =>
        /\ dres = Ok
        /\ Len(into) = 1
        /\ \A t \in KnownTokens : (into[1] = VariantOf(t)) <=> (TextGiven = t)
        /\ \A t1, t2 \in KnownTokens : t1 # t2 => VariantOf(t1) # VariantOf(t2)

C8_Witness ==
    /\ DecodedText
    /\ TextGiven = LitTransfer
    /\ into = <<Transfer>>

\* C9: a present text that is none of the known tokens decodes, without
\* error, to Unknown carrying exactly that text.
C9_UnknownCarriesText ==
    (DecodedText /\ TextGiven \notin KnownTokens) =>
        /\ dres = Ok
        /\ into = <<Unknown(TextGiven)>>

C9_Witness ==
    /\ DecodedText
    /\ TextGiven = Append(LitCreate, " ")
    /\ into = <<Unknown(Append(LitCreate, " "))>>

\* C10: a decode from absent text or from an empty text yields Empty, never
\* Unknown.
C10_AbsentOrEmptyIsEmpty ==
    (/\ dres # NotRun
     /\ call.into = <<>>
     /\ \/ call.deser = <<>>
        \/ DecodedText /\ TextGiven = <<>>) =>
        /\ dres = Ok
        /\ into = <<Empty>>

\* What the code does on the two cases of C10: absent text gives Empty, a
\* present empty text gives Unknown of the empty string.
C10_AbsentIsEmpty ==
    (dres # NotRun /\ call.into = <<>>) =>
        /\ call.deser = <<>> => (dres = Ok /\ into = <<Empty>>)
        /\ (DecodedText /\ TextGiven = <<>>) => into = <<Unknown(<<>>)>>

\* C11: a decode into a populated slot fails with DuplicateValue naming the
\* field it was called for, leaves the slot as it was and takes nothing
\* from the deserializer; a decode into an empty slot never fails with
\* DuplicateValue.
C11_DuplicateValueKeepsSlot ==
    (dres # NotRun) =>
        /\ call.into # <<>> =>
               /\ dres = DuplicateValue(field)
               /\ into = call.into
               /\ deser = call.deser
        /\ call.into = <<>> => dres.kind # "DuplicateValue"

C11_Witness ==
    /\ dres = DuplicateValue("value")
    /\ into = <<Renew>>
    /\ deser = <<TextNode("AttributeValue", LitCreate)>>
    /\ call.deser = deser

(***************************************************************************)
(* The scalar enumerations of the namespace schemas.  ChargeCommand has    *)
(* the hand-written FromXml above; PeriodUnit (fee-1.0 and fee-0.7) and    *)
(* PhaseType derive FromXml with #[xml(scalar)]: each variant is a unit    *)
(* variant with one literal, and the enum has no other variant.            *)
(***************************************************************************)
Variant(lit, tag) == [lit |-> lit, tag |-> tag]

fee_PeriodUnit == {Variant(<<"y">>, "Years"), Variant(<<"m">>, "Months")}

fee07_PeriodUnit == {Variant(<<"y">>, "Years"), Variant(<<"m">>, "Months")}

launch_PhaseType ==
    { Variant(<<"s", "u", "n", "r", "i", "s", "e">>, "Sunrise"),
      Variant(<<"l", "a", "n", "d", "r", "u", "s", "h">>, "Landrush"),
      Variant(<<"c", "l", "a", "i", "m", "s">>, "Claims"),
      Variant(<<"o", "p", "e", "n">>, "Open"),
      Variant(<<"c", "u", "s", "t", "o", "m">>, "Custom") }

DerivedEnums == {"fee::PeriodUnit", "fee07::PeriodUnit", "launch::PhaseType"}

ScalarEnums == {"charge::ChargeCommand"} \cup DerivedEnums

VariantsOf(en) ==
    CASE en = "fee::PeriodUnit" -> fee_PeriodUnit
      [] en = "fee07::PeriodUnit" -> fee07_PeriodUnit
      [] en = "launch::PhaseType" -> launch_PhaseType

UnexpectedValue == [kind |-> "UnexpectedValue", field |-> ""]

\* Units and phases a server could send that the enums do not list.
ForeignTokens ==
    { <<"d">>, <<"h">>, <<"Y">>, <<"y", " ">>, <<"y", "r">>,
      <<"S", "u", "n", "r", "i", "s", "e">>, <<"c", "l", "a", "i", "m">>,
      <<"p", "r", "e", "s", "a", "l", "e">> }

ScalarTexts ==
    Texts \cup ForeignTokens
          \cup {v.lit : v \in fee_PeriodUnit \cup launch_PhaseType}

ScalarDeserializers ==
    {<<>>} \cup {<<TextNode(k, t)>> : k \in {"AttributeValue", "Text"}, t \in ScalarTexts}
           \cup {<<TextNode("Open", <<>>)>>}

\* The deserialize of a derived scalar enum: the text taken is matched
\* against the variants' literals; text that matches none has no variant to
\* go to and is an error.
derived_deserialize(f) ==
    /\ scalar \in DerivedEnums
    /\ field' = f
    /\ call' = [into |-> into, deser |-> deser]
    /\ IF into # <<>>
       THEN /\ dres' = DuplicateValue(f)
            /\ UNCHANGED <<into, deser>>
       ELSE LET t == take_str(deser)
                hit == IF t.value = <<>> THEN {}
                       ELSE {v \in VariantsOf(scalar) : v.lit = t.value[1]}
            IN  /\ deser' = t.rest
                /\ CASE ~t.ok ->
                            /\ dres' = TakeError
                            /\ UNCHANGED into
                     [] t.ok /\ t.value = <<>> ->
                            /\ dres' = Ok
                            /\ UNCHANGED into
                     [] t.ok /\ t.value # <<>> /\ hit # {} ->
                            /\ into' = <<Plain((CHOOSE v \in hit : TRUE).tag)>>
                            /\ dres' = Ok
                     [] OTHER ->
                            /\ dres' = UnexpectedValue
                            /\ UNCHANGED into
    /\ UNCHANGED <<compVars, req, built, lastcall, scalar>>

\* ChargeCommand's own deserialize, when the field is a ChargeCommand.
charge_deserialize(f) ==
    /\ scalar = "charge::ChargeCommand"
    /\ deserialize(f)

\* The owning struct's derived FromXml reaches a field of enumeration en: an
\* empty accumulator and a Deserializer over the field's node.
Feed(en, d) ==
    /\ dres # NotRun \/ deser = <<>>
    /\ scalar' = en
    /\ into' = <<>>
    /\ deser' = d
    /\ dres' = NotRun
    /\ call' = NoCall
    /\ UNCHANGED <<field, compVars, req, built, lastcall>>

ScalarNext ==
    \/ \E f \in Fields : charge_deserialize(f)
    \/ \E f \in Fields : derived_deserialize(f)
    \/ \E en \in ScalarEnums, d \in ScalarDeserializers : Feed(en, d)

SpecScalar == Init /\ [][ScalarNext]_vars

\* The literals each enumeration knows.
KnownLiterals(en) ==
    IF en = "charge::ChargeCommand" THEN KnownTokens
    ELSE {v.lit : v \in VariantsOf(en)}

\* C12: for each of the four scalar enumerations, a decode of a present
\* token that matches no known variant succeeds and leaves in the slot a
\* catch-all variant carrying the token as it was.
C12_UnknownTokenNeverFails ==
    (DecodedText /\ TextGiven \notin KnownLiterals(scalar)) =>
        /\ dres = Ok
        /\ into = <<Unknown(TextGiven)>>

\* What the code does: ChargeCommand keeps the token in Unknown, the derived
\* enumerations fail with UnexpectedValue and leave the slot empty.
C12_OnlyChargeCommandCatchesAll ==
    (DecodedText /\ TextGiven \notin KnownLiterals(scalar)) =>
        IF scalar = "charge::ChargeCommand"
        THEN dres = Ok /\ into = <<Unknown(TextGiven)>>
        ELSE dres = UnexpectedValue /\ into = <<>>

(***************************************************************************)
(* Constructors of the request values: fee::Check::new, fee07::Check::new  *)
(* and launch::Create with its two builders.  An Option is <<>> for None   *)
(* and <<v>> for Some(v).                                                  *)
(***************************************************************************)
MaxYears == 2

MaxNames == 2

Currencies == {<<>>, <<"USD">>, <<"EUR">>}

PeriodYears == {<<>>} \cup {<<n>> : n \in 0..MaxYears}

DomainNames == {"example.com", "example.net"}

RECURSIVE NameLists(_)
NameLists(n) ==
    IF n = 0 THEN {<<>>}
    ELSE LET shorter == NameLists(n - 1)
         IN  shorter \cup {Append(l, d) : l \in {k \in shorter : Len(k) = n - 1},
                                           d \in DomainNames}

\* fee::Period::years, fee.rs:72-77.
fee_Period_years(v) == [unit |-> "Years", value |-> v]

\* period_years.map(Period::years)
fee_period(period_years) ==
    IF period_years = <<>> THEN <<>> ELSE <<fee_Period_years(period_years[1])>>

\* The struct literal of a fee::Command with no phase and no subphase.
fee_Command(name, period_years) ==
    [name |-> name, phase |-> <<>>, subphase |-> <<>>, period |-> fee_period(period_years)]

\* fee::Check::new, fee.rs:82-106.
fee_Check_new(currency, period_years) ==
    [ ty |-> "fee::Check",
      currency |-> currency,
      commands |-> << fee_Command("create", period_years),
                      fee_Command("renew", period_years),
                      fee_Command("transfer", period_years) >> ]

\* fee07::Period::years, fee07.rs:41-46.
fee07_Period_years(v) == [unit |-> "Years", value |-> v]

fee07_period(period_years) ==
    IF period_years = <<>> THEN <<>> ELSE <<fee07_Period_years(period_years[1])>>

\* The array the inner loop of fee07.rs:159 runs over.
fee07_cmds == <<"create", "renew", "transfer">>

\* The Domain pushed at fee07.rs:160-169.
fee07_Domain(name, currency, cmd, period) ==
    [ name |-> name,
      currency |-> currency,
      command |-> [phase |-> <<>>, subphase |-> <<>>, value |-> cmd],
      period |-> period ]

\* The inner loop: one Domain per command for one name.
fee07_per_name(name, currency, period) ==
    [j \in 1..Len(fee07_cmds) |-> fee07_Domain(name, currency, fee07_cmds[j], period)]

\* The outer loop over the names, in their order.
RECURSIVE fee07_push_all(_, _, _)
fee07_push_all(names, currency, period) ==
    IF names = <<>> THEN <<>>
    ELSE fee07_per_name(Head(names), currency, period)
             \o fee07_push_all(Tail(names), currency, period)

\* (The mutant runs the loops the other way round: all names per command.)
fee07_Check_new_CommandMajor(names, currency, period_years) ==
    LET period == fee07_period(period_years)
        n == Len(names)
    IN  [ ty |-> "fee07::Check",
          domains |-> [k \in 1..(Len(fee07_cmds) * n) |->
                          fee07_Domain(names[((k - 1) % n) + 1], currency,
                                       fee07_cmds[((k - 1) \div n) + 1], period)] ]

\* fee07::Check::new, fee07.rs:150-174.
fee07_Check_new(names, currency, period_years) ==
    [ ty |-> "fee07::Check",
      domains |-> fee07_push_all(names, currency, fee07_period(period_years)) ]

\* launch::Phase values: Phase::new(value, name) and Phase::custom(name).
Phases ==
    { [name |-> <<>>, value |-> "Sunrise"],
      [name |-> <<>>, value |-> "Claims"],
      [name |-> <<"presale">>, value |-> "Custom"] }

Smds == {"c21kLWE=", "c21kLWI="}

Notices == {<<>>, <<"notice-1">>}

ApplicationIds == {<<>>, <<"app-1">>}

\* launch::Create::new, launch.rs:125-133.
launch_Create_new(phase) ==
    [ ty |-> "launch::Create",
      phase |-> phase,
      encoded_signed_mark |-> <<>>,
      code_mark |-> <<>>,
      notice |-> <<>>,
      application_id |-> <<>> ]

\* Create::with_encoded_signed_mark, launch.rs:136-140.
with_encoded_signed_mark(self, smd_b64) ==
    [self EXCEPT !.encoded_signed_mark = <<[value |-> smd_b64]>>,
                 !.code_mark = <<>>]

\* Create::with_code_mark, launch.rs:143-147.  (The mutant lacks the line
\* that clears the other mark.)
with_code_mark_KeepsOther(self, smd_b64) ==
    [self EXCEPT !.code_mark = <<[code |-> smd_b64]>>]

with_code_mark(self, smd_b64) ==
    [self EXCEPT !.code_mark = <<[code |-> smd_b64]>>,
                 !.encoded_signed_mark = <<>>]

restVars == <<codecVars, compVars, req, scalar>>

Build_fee_Check(currency, period_years) ==
    /\ built' = fee_Check_new(currency, period_years)
    /\ lastcall' = [op |-> "fee::Check::new", currency |-> currency,
                    period_years |-> period_years]
    /\ UNCHANGED restVars

Build_fee07_Check(names, currency, period_years) ==
    /\ built' = fee07_Check_new(names, currency, period_years)
    /\ lastcall' = [op |-> "fee07::Check::new", names |-> names,
                    currency |-> currency, period_years |-> period_years]
    /\ UNCHANGED restVars

Build_launch_Create(phase) ==
    /\ built' = launch_Create_new(phase)
    /\ lastcall' = [op |-> "launch::Create::new", phase |-> phase]
    /\ UNCHANGED restVars

Call_with_encoded_signed_mark(smd) ==
    /\ built.ty = "launch::Create"
    /\ built' = with_encoded_signed_mark(built, smd)
    /\ lastcall' = [op |-> "with_encoded_signed_mark", arg |-> smd, self |-> built]
    /\ UNCHANGED restVars

Call_with_code_mark(smd) ==
    /\ built.ty = "launch::Create"
    /\ built' = with_code_mark(built, smd)
    /\ lastcall' = [op |-> "with_code_mark", arg |-> smd, self |-> built]
    /\ UNCHANGED restVars

\* The caller fills the public fields notice and application_id of a Create
\* (launch.rs:115-121), which no constructor or builder sets.
AssignFields(notice, application_id) ==
    /\ built.ty = "launch::Create"
    /\ <<notice, application_id>> # <<built.notice, built.application_id>>
    /\ built' = [built EXCEPT !.notice = notice, !.application_id = application_id]
    /\ lastcall' = [op |-> "assign"]
    /\ UNCHANGED restVars

BuildNext ==
    \/ \E c \in Currencies, y \in PeriodYears : Build_fee_Check(c, y)
    \/ \E ns \in NameLists(MaxNames), c \in Currencies, y \in PeriodYears :
           Build_fee07_Check(ns, c, y)
    \/ \E ph \in Phases : Build_launch_Create(ph)
    \/ \E smd \in Smds : Call_with_encoded_signed_mark(smd)
    \/ \E smd \in Smds : Call_with_code_mark(smd)
    \/ \E n \in Notices, a \in ApplicationIds : AssignFields(n, a)

SpecBuild == Init /\ [][BuildNext]_vars


(***************************************************************************)
(* Claims about the constructors.                                          *)
(***************************************************************************)
\* C14 (as stated): fee::Check::new(currency, period_years) yields exactly
\* the two commands "create" and "renew", in that order, each without phase
\* and subphase and with period Period::years(n) for Some(n) and no period
\* for None, and the currency passed.
C14_CreateAndRenewOnly ==
    lastcall.op = "fee::Check::new" =>
        LET p == IF lastcall.period_years = <<>> THEN <<>>
                 ELSE <<[unit |-> "Years", value |-> lastcall.period_years[1]]>>
            cmd(n) == [name |-> n, phase |-> <<>>, subphase |-> <<>>, period |-> p]
        IN  /\ built.currency = lastcall.currency
            /\ built.commands = <<cmd("create"), cmd("renew")>>

\* C15: fee07::Check::new(names, currency, period_years) yields 3*|names|
\* Domain entries; the entry at index 3*i+j (counting from 0) carries the
\* i-th name and the j-th of "create", "renew", "transfer", the currency
\* passed, no phase, no subphase, and the period Period::years(n) for
\* Some(n) or none for None; no names give no entries.
C15_ThreeEntriesPerNameInOrder ==
    lastcall.op = "fee07::Check::new" =>
        LET names == lastcall.names
            three == <<"create", "renew", "transfer">>
            p == IF lastcall.period_years = <<>> THEN <<>>
                 ELSE <<[unit |-> "Years", value |-> lastcall.period_years[1]]>>
        IN  /\ Len(built.domains) = 3 * Len(names)
            /\ \A i \in 0..(Len(names) - 1), j \in 0..2 :
                   built.domains[3 * i + j + 1] =
                       [ name |-> names[i + 1],
                         currency |-> lastcall.currency,
                         command |-> [phase |-> <<>>, subphase |-> <<>>,
                                      value |-> three[j + 1]],
                         period |-> p ]
            /\ (names = <<>>) => (built.domains = <<>>)

C15_Witness ==
    /\ lastcall.op = "fee07::Check::new"
    /\ Len(lastcall.names) = 2
    /\ lastcall.names[1] # lastcall.names[2]
    /\ lastcall.period_years # <<>>
    /\ lastcall.currency # <<>>
    /\ Len(built.domains) = 6

\* C18: a launch::Create made by Create::new and any number of
\* with_encoded_signed_mark / with_code_mark calls never has both marks;
\* Create::new sets neither, each builder sets its own mark to its argument
\* and clears the other, and leaves phase, notice and application_id as
\* they were.
C18_MarksMutuallyExclusive ==
    /\ built.ty = "launch::Create" =>
           ~(built.encoded_signed_mark # <<>> /\ built.code_mark # <<>>)
    /\ lastcall.op = "launch::Create::new" =>
           /\ built.encoded_signed_mark = <<>>
           /\ built.code_mark = <<>>
    /\ lastcall.op = "with_encoded_signed_mark" =>
           /\ built.encoded_signed_mark = <<[value |-> lastcall.arg]>>
           /\ built.code_mark = <<>>
    /\ lastcall.op = "with_code_mark" =>
           /\ built.code_mark = <<[code |-> lastcall.arg]>>
           /\ built.encoded_signed_mark = <<>>
    /\ lastcall.op \in {"with_encoded_signed_mark", "with_code_mark"} =>
           /\ built.phase = lastcall.self.phase
           /\ built.notice = lastcall.self.notice
           /\ built.application_id = lastcall.self.application_id

\* with_code_mark called on a value that carried an encoded signed mark, a
\* notice and an application id.
C18_Witness ==
    /\ lastcall.op = "with_code_mark"
    /\ lastcall.self.encoded_signed_mark # <<>>
    /\ lastcall.self.notice # <<>>
    /\ lastcall.self.application_id # <<>>
    /\ built.code_mark # <<>>

(***************************************************************************)
(* Claims about the three composite types taken together.                  *)
(***************************************************************************)
\* The sink the last serialize call started from: each element written
\* used up one of the writes the sink allowed.
StartSink ==
    NewSink(IF sink.fails = <<>> THEN <<>> ELSE <<sink.fails[1] + Len(sink.out)>>)

Observed == [out |-> sink.out, ok |-> sres = "Ok"]

Outcome(r) == [out |-> r.sink.out, ok |-> r.ok]

\* C17: for the same two children and the same sink, CompositeExt,
\* CompositeExtWithFirstResponse and CompositeExtWithSecondResponse write
\* the same output and return the same result, which is what the composite
\* at hand did; when the first child fails, nothing of the second is
\* written and the call fails.
C17_ShapesEncodeAlike ==
    Serialized =>
        /\ \A sh \in CompositeShapes :
               Outcome(serialize(Composite(sh, First, Second), StartSink)) = Observed
        /\ \A s \in Sinks :
               /\ Outcome(CompositeExt_serialize(Top, s))
                      = Outcome(CompositeExtWithFirstResponse_serialize(Top, s))
               /\ Outcome(CompositeExt_serialize(Top, s))
                      = Outcome(CompositeExtWithSecondResponse_serialize(Top, s))
               /\ (do_send(First) /\ ~serialize(First, s).ok) =>
                      \A sh \in CompositeShapes :
                          Outcome(serialize(Composite(sh, First, Second), s))
                              = [out |-> serialize(First, s).sink.out, ok |-> FALSE]

\* A composite with a response-carrying shape whose first child failed
\* after nothing was written, while its second child would have been sent.
C17_Witness ==
    /\ Serialized
    /\ Top.shape = "CompositeExtWithFirstResponse"
    /\ do_send(First)
    /\ do_send(Second)
    /\ sres = "Err"
    /\ sink.out = <<>>

====
